---- MODULE Spec2Model ----
(***************************************************************************)
(* Model of az-function-http-trigger/function_app.py: three handlers of an *)
(* Azure Functions app.                                                    *)
(*   generate_email          HTTP intake, validates and enqueues on the    *)
(*                           generate-email-queue (queue A)                *)
(*   process_generate_email  queue worker: builds a prompt, calls the      *)
(*                           generation service, enqueues the reply on the *)
(*                           outlook-draft-queue (queue B), posts two      *)
(*                           audit records                                 *)
(*   create_outlook_draft    HTTP endpoint: acquires a token and posts a   *)
(*                           draft to the mailbox provider                 *)
(*                                                                         *)
(* A Python str is a Text: a sequence of chunks (TLA+ strings), so that    *)
(* f-string formatting is concatenation and "contains" is decidable.  A    *)
(* JSON document (an HTTP body, a queue message) is a sequence of tokens;  *)
(* json.dumps and json.loads are a printer and a parser over tokens.       *)
(***************************************************************************)
EXTENDS Naturals, Sequences, FiniteSets

\* ------------------------------------------------------------------ bounds

MaxRequests == 2
MaxQueued == 2
MaxDeliveries == 2
MaxDrafts == 2

\* ------------------------------------------------------- Python values

Str(t) == [kind |-> "str", s |-> t, items |-> <<>>]
None == [kind |-> "null", s |-> <<>>, items |-> <<>>]
Num(t) == [kind |-> "num", s |-> t, items |-> <<>>]
Item(k, v) == [k |-> k, v |-> v]
List(vs) == [kind |-> "list", s |-> <<>>, items |-> [i \in 1..Len(vs) |-> Item("", vs[i])]]
Dict(kvs) == [kind |-> "dict", s |-> <<>>, items |-> kvs]

\* Python's truth value of a JSON-decoded object (if x: / not x).
Truthy(v) ==
    CASE v.kind = "str" -> v.s # <<>>
      [] v.kind = "null" -> FALSE
      [] v.kind = "num" -> v.s # <<"0">>
      [] OTHER -> v.items # <<>>

\* str(x) as an f-string field formats it, for the scalars a message carries.
Format(v) ==
    CASE v.kind = "str" -> v.s
      [] v.kind = "null" -> <<"None">>
      [] v.kind = "num" -> v.s
      [] OTHER -> <<"<object>">>

\* t contains sub as a contiguous run of chunks (str.__contains__).
Contains(t, sub) ==
    \E i \in 0..Len(t) :
        /\ i + Len(sub) <= Len(t)
        /\ \A j \in 1..Len(sub) : t[i + j] = sub[j]

EndsWith(t, suffix) ==
    /\ Len(suffix) <= Len(t)
    /\ \A j \in 1..Len(suffix) : t[Len(t) - Len(suffix) + j] = suffix[j]

HasKey(d, k) == \E i \in 1..Len(d.items) : d.items[i].k = k

\* dict.get(k): the value, or None when the key is absent.
DictGet(d, k) ==
    IF HasKey(d, k)
    THEN d.items[CHOOSE i \in 1..Len(d.items) : d.items[i].k = k].v
    ELSE None

\* d[k] = v on an insertion-ordered dict: a repeated key keeps its place.
DictSet(items, k, v) ==
    IF \E i \in 1..Len(items) : items[i].k = k
    THEN [i \in 1..Len(items) |-> IF items[i].k = k THEN Item(k, v) ELSE items[i]]
    ELSE Append(items, Item(k, v))

\* Python's == on decoded JSON: dicts compare as mappings, lists in order.
PyEq(a, b) ==
    /\ a.kind = b.kind
    /\ CASE a.kind = "dict" ->
              /\ \A i \in 1..Len(a.items) :
                    HasKey(b, a.items[i].k) /\ DictGet(b, a.items[i].k) = a.items[i].v
              /\ \A i \in 1..Len(b.items) : HasKey(a, b.items[i].k)
         [] OTHER -> a = b

\* `field in obj`: a key of a dict, an element of a list, a substring of a
\* str; any other operand raises TypeError.
InRaises(obj) == obj.kind \in {"null", "num"}

InPy(field, obj) ==
    CASE obj.kind = "dict" -> HasKey(obj, field)
      [] obj.kind = "list" -> \E i \in 1..Len(obj.items) : obj.items[i].v = Str(<<field>>)
      [] obj.kind = "str" -> Contains(obj.s, <<field>>)
      [] OTHER -> FALSE

\* ---------------------------------------------------------------- JSON

Tok(t, s) == [t |-> t, s |-> s]
LBrace == Tok("{", <<>>)
RBrace == Tok("}", <<>>)
LBracket == Tok("[", <<>>)
RBracket == Tok("]", <<>>)
Colon == Tok(":", <<>>)
Comma == Tok(",", <<>>)

IsScalarTok(tk) == tk.t \in {"str", "null", "num"}
ScalarOf(tk) == [kind |-> tk.t, s |-> tk.s, items |-> <<>>]

RECURSIVE DumpItems(_, _)
DumpItems(items, isDict) ==
    IF items = <<>> THEN <<>>
    ELSE LET it == Head(items)
             one == IF isDict
                    THEN <<Tok("str", <<it.k>>), Colon, Tok(it.v.kind, it.v.s)>>
                    ELSE <<Tok(it.v.kind, it.v.s)>>
         IN  one \o (IF Tail(items) = <<>> THEN <<>> ELSE <<Comma>>)
                 \o DumpItems(Tail(items), isDict)

\* json.dumps: insertion order kept, None printed as null.
dumps(v) ==
    CASE v.kind = "dict" -> <<LBrace>> \o DumpItems(v.items, TRUE) \o <<RBrace>>
      [] v.kind = "list" -> <<LBracket>> \o DumpItems(v.items, FALSE) \o <<RBracket>>
      [] OTHER -> <<Tok(v.kind, v.s)>>

Fail == [ok |-> FALSE, val |-> None]
Ok(v) == [ok |-> TRUE, val |-> v]

\* The members between the brackets, from token i on: value (, value)* for a
\* list, "key" : value (, "key" : value)* for a dict.
RECURSIVE ParseItems(_, _, _, _)
ParseItems(toks, i, isDict, acc) ==
    LET n == Len(toks)
        w == IF isDict THEN 3 ELSE 1
        wellFormed ==
            /\ i + w - 1 <= n
            /\ IF isDict
               THEN /\ toks[i].t = "str" /\ Len(toks[i].s) = 1
                    /\ toks[i + 1] = Colon
                    /\ IsScalarTok(toks[i + 2])
               ELSE IsScalarTok(toks[i])
        next == IF isDict
                THEN DictSet(acc, toks[i].s[1], ScalarOf(toks[i + 2]))
                ELSE Append(acc, Item("", ScalarOf(toks[i])))
    IN  IF ~wellFormed THEN Fail
        ELSE IF i + w - 1 = n THEN Ok(next)
        ELSE IF toks[i + w] # Comma THEN Fail
        ELSE ParseItems(toks, i + w + 1, isDict, next)

\* json.loads: a value, or ok = FALSE where it raises JSONDecodeError.
loads(toks) ==
    LET n == Len(toks)
        inner == SubSeq(toks, 2, n - 1)
    IN  IF n = 0 THEN Fail
        ELSE IF n = 1
             THEN IF IsScalarTok(toks[1]) THEN Ok(ScalarOf(toks[1])) ELSE Fail
        ELSE IF toks[1] = LBrace /\ toks[n] = RBrace
             THEN IF n = 2 THEN Ok(Dict(<<>>))
                  ELSE LET r == ParseItems(inner, 1, TRUE, <<>>)
                       IN  IF r.ok THEN Ok(Dict(r.val)) ELSE Fail
        ELSE IF toks[1] = LBracket /\ toks[n] = RBracket
             THEN IF n = 2 THEN Ok([kind |-> "list", s |-> <<>>, items |-> <<>>])
                  ELSE LET r == ParseItems(inner, 1, FALSE, <<>>)
                       IN  IF r.ok THEN Ok([kind |-> "list", s |-> <<>>, items |-> r.val])
                           ELSE Fail
        ELSE Fail


\* -------------------------------------------------------------- inputs

\* The request payloads of the intake, as Python objects.
Required == Dict(<<Item("subject", Str(<<"Hi">>)), Item("body", Str(<<"Hello">>)),
                   Item("sender_email", Str(<<"a@x.com">>))>>)
With(d, k, v) == Dict(DictSet(d.items, k, v))
Without(d, k) == Dict(SelectSeq(d.items, LAMBDA it : it.k # k))

NamedReply == With(With(Required, "recipient_email", Str(<<"b@y.com">>)),
                   "recipient_name", Str(<<"Bob">>))
EmptyName == With(With(Required, "recipient_email", Str(<<"b@y.com">>)),
                  "recipient_name", Str(<<>>))
NameNoEmail == With(Required, "recipient_name", Str(<<"Bob">>))
EmptySubject == With(Required, "subject", Str(<<>>))
NullSubject == With(Required, "subject", None)
FieldString == Str(<<"subject", ", ", "body", ", ", "sender_email">>)
FieldList == List(<<Str(<<"subject">>), Str(<<"body">>), Str(<<"sender_email">>)>>)

\* Payloads a mapping check would accept and the ones it must reject.
CompletePayloads ==
    {Required, NamedReply, EmptyName, NameNoEmail, EmptySubject, NullSubject}
IncompletePayloads ==
    {Without(Required, "subject"), Without(Required, "body"),
     Without(Required, "sender_email"), Dict(<<>>),
     FieldList, List(<<Str(<<"subject">>)>>), FieldString, Str(<<"hello">>),
     Num(<<"42">>), None}

\* Bodies json.loads rejects (empty, truncated), and a body with a repeated
\* key, which it accepts (the last value wins).
TruncatedBody == <<LBrace, Tok("str", <<"subject">>), Colon>>
RepeatedKeyBody == <<LBrace, Tok("str", <<"subject">>), Colon, Tok("str", <<"Old">>), Comma>>
                       \o SubSeq(dumps(Required), 2, Len(dumps(Required)))
UnparseableBodies == {<<>>, TruncatedBody}

RequestBodies ==
    {dumps(p) : p \in CompletePayloads \cup IncompletePayloads}
        \cup UnparseableBodies \cup {RepeatedKeyBody}

\* ----------------------------------------------------------- variables

VARIABLES
    queueA,          \* generate-email-queue: JSON texts, oldest first
    queueB,          \* outlook-draft-queue
    inReq,           \* generate_email: the body of the last request
    inResp,          \* generate_email: how the last invocation ended
    requests,        \* generate_email invocations so far
    pc,              \* process_generate_email: the step it is at
    msg,             \* the queue message being processed
    req_body,        \* its decoded content
    user_content,    \* the user turn of the prompt
    prompt_messages, \* the turns handed to the generation service
    reply_content,   \* the stripped model output
    calls,           \* external calls of the current worker invocation
    outcome,         \* how the worker invocation ended
    deliveries,      \* worker invocations so far
    dpc,             \* create_outlook_draft: the step it is at
    dReq,            \* the body of the request
    draft_req_body,  \* its parsed content
    access_token,    \* the token acquired in this invocation
    graph_calls,     \* mailbox-provider calls of this invocation
    dResp,           \* how the invocation ended
    drafts           \* create_outlook_draft invocations so far

intakeVars == <<inReq, inResp, requests>>
workerVars == <<pc, msg, req_body, user_content, prompt_messages, reply_content,
                calls, outcome, deliveries>>
draftVars == <<dpc, dReq, draft_req_body, access_token, graph_calls, dResp, drafts>>
vars == <<queueA, queueB, intakeVars, workerVars, draftVars>>

\* How an invocation ends: an HTTP response, a plain return (None), or an
\* exception that leaves the handler.
Response(status, text) == [kind |-> "response", status |-> status, text |-> <<text>>, at |-> ""]
Returned == [kind |-> "returned", status |-> 0, text |-> <<>>, at |-> ""]
Raised(step) == [kind |-> "raised", status |-> 0, text |-> <<>>, at |-> step]
Pending == [kind |-> "pending", status |-> 0, text |-> <<>>, at |-> ""]

\* ------------------------------------------------------- generate_email

required_fields == <<"subject", "body", "sender_email">>

\* A variant that skips a message the queue already holds.
QueueSetOnce(q, m) == IF \E i \in 1..Len(q) : q[i] = m THEN q ELSE Append(q, m)

\* func.Out[str].set on a queue output binding: one more message.
QueueSet(q, m) == Append(q, m)

\* all(field in req_body for field in required_fields)
AllRequired(obj) == \A i \in 1..Len(required_fields) : InPy(required_fields[i], obj)

generate_email(body) ==
    LET parsed == loads(body)
    IN  /\ requests < MaxRequests
        /\ requests' = requests + 1
        /\ inReq' = body
        /\ IF ~parsed.ok
           THEN /\ inResp' = Response(400, "Invalid JSON body.")
                /\ queueA' = queueA
           ELSE IF InRaises(parsed.val)
           THEN /\ inResp' = Raised("validate")
                /\ queueA' = queueA
           ELSE IF ~AllRequired(parsed.val)
           THEN /\ inResp' = Response(400, "Please provide 'subject', 'body', and 'sender_email' in the request body.")
                /\ queueA' = queueA
           ELSE /\ queueA' = QueueSet(queueA, dumps(parsed.val))
                /\ inResp' = Response(202, "Your request has been queued for processing.")
        /\ UNCHANGED <<queueB, workerVars, draftVars>>

Intake == \E body \in RequestBodies : generate_email(body)

\* ----------------------------------------------- process_generate_email

\* Messages on queue A that generate_email did not write: an empty message
\* and one that is not JSON.
ForeignMessages == {<<>>, TruncatedBody}

\* What generate_email can have put on queue A.
IntakeMessages ==
    {dumps(loads(b).val) : b \in {r \in RequestBodies :
        /\ loads(r).ok
        /\ ~InRaises(loads(r).val)
        /\ AllRequired(loads(r).val)}}

original_email_subject == DictGet(req_body, "subject")
original_email_body == DictGet(req_body, "body")
sender_email == DictGet(req_body, "sender_email")
recipient_email == DictGet(req_body, "recipient_email")
recipient_name == DictGet(req_body, "recipient_name")

system_role == <<"system">>
system_content ==
    <<"You are a helpful assistant that drafts professional email replies. Be concise and polite.">>
user_role == <<"user">>

\* A variant that tests `recipient_name is not None`.
SignOffUnlessNone(name) == name.kind # "null"

\* if recipient_name:
SignOff(name) == Truthy(name)

SignatureClause(name, email) ==
    <<"\n\nSign off as ">> \o Format(name)
        \o <<" with position as Magiccars Customer Care and email contact ">>
        \o Format(email) \o <<".">>

BaseContent(sender, subject, body) ==
    <<"The following is an email from '">> \o Format(sender)
        \o <<"' with the subject '">> \o Format(subject)
        \o <<"' and body:\n\n---\n'">> \o Format(body)
        \o <<"'\n---\n\nDraft a concise and polite reply.">>

UserContent(rb) ==
    BaseContent(DictGet(rb, "sender_email"), DictGet(rb, "subject"), DictGet(rb, "body"))
        \o (IF SignOff(DictGet(rb, "recipient_name"))
            THEN SignatureClause(DictGet(rb, "recipient_name"), DictGet(rb, "recipient_email"))
            ELSE <<>>)

Turn(role, content) == [role |-> role, content |-> content]

\* str.strip(): leading and trailing whitespace removed.
IsSpace(c) == c \in {" ", "\n", "\t"}
RECURSIVE LStrip(_)
LStrip(t) == IF t # <<>> /\ IsSpace(Head(t)) THEN LStrip(Tail(t)) ELSE t
RECURSIVE RStrip(_)
RStrip(t) == IF t # <<>> /\ IsSpace(t[Len(t)]) THEN RStrip(SubSeq(t, 1, Len(t) - 1)) ELSE t
Strip(t) == RStrip(LStrip(t))

\* What the generation service can answer: an exception, a choice without
\* content, or a text.
GenerationResults ==
    {[raised |-> TRUE, content |-> None],
     [raised |-> FALSE, content |-> None],
     [raised |-> FALSE, content |-> Str(<<" ", "Thanks for your email.", "\n">>)]}

reply_subject == <<"Re: ">> \o Format(original_email_subject)

\* A variant that keeps the addresses of the original in place.
DraftPayloadUnswapped(rb, subject, content) ==
    Dict(<<Item("subject", Str(subject)), Item("body", Str(content)),
           Item("recipient_email", DictGet(rb, "recipient_email")),
           Item("sender_email", DictGet(rb, "sender_email"))>>)

\* draft_payload: the reply goes back to the original sender.
DraftPayload(rb, subject, content) ==
    Dict(<<Item("subject", Str(subject)), Item("body", Str(content)),
           Item("recipient_email", DictGet(rb, "sender_email")),
           Item("sender_email", DictGet(rb, "recipient_email"))>>)

Call(svc, raised) == [svc |-> svc, raised |-> raised]

\* Variants with a narrower second try block, and without the first two.
GuardedOnlyGeneration == {"decode", "init_client", "generate", "reply", "enqueue"}

GuardedSecondTryOnly ==
    {"generate", "reply", "enqueue", "audit_env", "post_metadata", "post_training"}

\* The steps of the worker inside a try block whose except clause logs and
\* lets the function return.
Guarded ==
    {"decode", "init_client", "generate", "reply", "enqueue",
     "audit_env", "post_metadata", "post_training"}

\* An exception raised at `step`.
Except(step) == IF step \in Guarded THEN Returned ELSE Raised(step)

\* A variant that goes on to the next statement after an exception.
AfterKeepGoing(raised, next) == next

\* Inside the second try block a statement runs only if the ones before it
\* did not raise.
After(raised, next) == IF raised THEN "done" ELSE next

Deliver(m) ==
    /\ pc = "idle"
    /\ deliveries < MaxDeliveries
    /\ deliveries' = deliveries + 1
    /\ msg' = m
    /\ pc' = "decode"
    /\ outcome' = Pending
    /\ UNCHANGED <<req_body, user_content, prompt_messages, reply_content, calls>>

\* The queue trigger hands the oldest message of queue A to the worker.
DeliverQueued ==
    /\ queueA # <<>>
    /\ Deliver(Head(queueA))
    /\ queueA' = Tail(queueA)
    /\ UNCHANGED <<queueB, intakeVars, draftVars>>

DeliverForeign ==
    /\ \E m \in ForeignMessages : Deliver(m)
    /\ UNCHANGED <<queueA, queueB, intakeVars, draftVars>>

Decode ==
    /\ pc = "decode"
    /\ IF loads(msg).ok
       THEN /\ req_body' = loads(msg).val
            /\ pc' = "extract"
            /\ outcome' = outcome
       ELSE /\ req_body' = req_body
            /\ pc' = "done"
            /\ outcome' = Except("decode")
    /\ UNCHANGED <<queueA, queueB, intakeVars, draftVars, msg, user_content,
                   prompt_messages, reply_content, calls, deliveries>>

\* req_body.get(...) five times: an object without .get raises.
Extract ==
    /\ pc = "extract"
    /\ IF req_body.kind = "dict"
       THEN pc' = "init_client" /\ outcome' = outcome
       ELSE pc' = "done" /\ outcome' = Except("extract")
    /\ UNCHANGED <<queueA, queueB, intakeVars, draftVars, msg, req_body, user_content,
                   prompt_messages, reply_content, calls, deliveries>>

\* os.environ[...] of the three generation-service settings.
InitClient ==
    /\ pc = "init_client"
    /\ \E configured \in BOOLEAN :
          IF configured
          THEN pc' = "prompt" /\ outcome' = outcome
          ELSE pc' = "done" /\ outcome' = Except("init_client")
    /\ UNCHANGED <<queueA, queueB, intakeVars, draftVars, msg, req_body, user_content,
                   prompt_messages, reply_content, calls, deliveries>>

Prompt ==
    /\ pc = "prompt"
    /\ user_content' = UserContent(req_body)
    /\ prompt_messages' = <<Turn(system_role, system_content),
                            Turn(user_role, UserContent(req_body))>>
    /\ pc' = "generate"
    /\ UNCHANGED <<queueA, queueB, intakeVars, draftVars, msg, req_body,
                   reply_content, calls, outcome, deliveries>>

\* openai_client.chat.completions.create(...), then .content.strip().
Generate ==
    /\ pc = "generate"
    /\ \E r \in GenerationResults :
          /\ calls' = Append(calls, Call("generate", r.raised))
          /\ IF r.raised
             THEN /\ pc' = After(TRUE, "enqueue")
                  /\ outcome' = Except("generate")
                  /\ reply_content' = reply_content
             ELSE IF r.content.kind # "str"
             THEN /\ pc' = "done"
                  /\ outcome' = Except("reply")
                  /\ reply_content' = reply_content
             ELSE /\ pc' = After(FALSE, "enqueue")
                  /\ outcome' = outcome
                  /\ reply_content' = Strip(r.content.s)
    /\ UNCHANGED <<queueA, queueB, intakeVars, draftVars, msg, req_body, user_content,
                   prompt_messages, deliveries>>

\* outlookDraftQueue.set(json.dumps(draft_payload))
Enqueue ==
    /\ pc = "enqueue"
    /\ queueB' = QueueSet(queueB, dumps(DraftPayload(req_body, reply_subject, reply_content)))
    /\ calls' = Append(calls, Call("enqueue", FALSE))
    /\ pc' = "audit_env"
    /\ UNCHANGED <<queueA, intakeVars, draftVars, msg, req_body, user_content,
                   prompt_messages, reply_content, outcome, deliveries>>

\* os.environ[...] of the three tabular-store settings.
AuditEnv ==
    /\ pc = "audit_env"
    /\ \E configured \in BOOLEAN :
          /\ pc' = After(~configured, "post_metadata")
          /\ outcome' = IF configured THEN outcome ELSE Except("audit_env")
    /\ UNCHANGED <<queueA, queueB, intakeVars, draftVars, msg, req_body, user_content,
                   prompt_messages, reply_content, calls, deliveries>>

Post(step, svc, next) ==
    /\ pc = step
    /\ \E raised \in BOOLEAN :
          /\ calls' = Append(calls, Call(svc, raised))
          /\ pc' = After(raised, next)
          /\ outcome' = IF raised THEN Except(step) ELSE outcome
    /\ UNCHANGED <<queueA, queueB, intakeVars, draftVars, msg, req_body, user_content,
                   prompt_messages, reply_content, deliveries>>

PostMetadata == Post("post_metadata", "metadata", "post_training")

PostTraining == Post("post_training", "training", "done")

\* The function returns (or its exception leaves it) and its locals go.
Finish ==
    /\ pc = "done"
    /\ pc' = "idle"
    /\ outcome' = IF outcome = Pending THEN Returned ELSE outcome
    /\ msg' = <<>>
    /\ req_body' = None
    /\ user_content' = <<>>
    /\ prompt_messages' = <<>>
    /\ reply_content' = <<>>
    /\ calls' = <<>>
    /\ UNCHANGED <<queueA, queueB, intakeVars, draftVars, deliveries>>

WorkerNext ==
    \/ DeliverQueued
    \/ DeliverForeign
    \/ Decode
    \/ Extract
    \/ InitClient
    \/ Prompt
    \/ Generate
    \/ Enqueue
    \/ AuditEnv
    \/ PostMetadata
    \/ PostTraining
    \/ Finish

\* ------------------------------------------------- create_outlook_draft

DraftRequest ==
    Dict(<<Item("subject", Str(<<"Hi">>)), Item("body", Str(<<"Hello">>)),
           Item("sender_email", Str(<<"a@x.com">>)),
           Item("recipient_email", Str(<<"b@y.com">>))>>)

DraftBodies ==
    {dumps(DraftRequest), dumps(With(DraftRequest, "sender_email", Str(<<"c@z.com">>))),
     dumps(Without(DraftRequest, "recipient_email")), dumps(FieldList), dumps(None), <<>>}

\* result.get("access_token") after acquire_token_for_client: absent, empty
\* or a token.
TokenResults == {None, Str(<<>>), Str(<<"eyJ0eXAi">>)}

\* The status codes the mailbox provider answers with.
ProviderStatuses == {200, 201, 400, 401, 500}

draft_fields == <<"subject", "body", "recipient_email", "sender_email">>

\* A local that no statement has assigned yet.
Unset == [kind |-> "unset", s |-> <<>>, items |-> <<>>]

\* A variant that tests `access_token is None`.
TokenMissingIfNone(tok) == tok.kind = "null"

\* if not access_token:
TokenMissing(tok) == ~Truthy(tok)

\* A variant that takes 200 for a success too.
DraftResponseAny2xx(status) ==
    IF status \in {200, 201}
    THEN Response(201, "Draft created.")
    ELSE Response(status, "Failed to create draft.")

\* The response for the provider's status code.
DraftResponse(status) ==
    IF status = 201
    THEN Response(201, "Draft created.")
    ELSE Response(status, "Failed to create draft.")

DraftStart ==
    /\ dpc = "idle"
    /\ drafts < MaxDrafts
    /\ drafts' = drafts + 1
    /\ \E body \in DraftBodies : dReq' = body
    /\ dpc' = "get_json"
    /\ dResp' = Pending
    /\ UNCHANGED <<queueA, queueB, intakeVars, workerVars, draft_req_body,
                   access_token, graph_calls>>

\* req.get_json(), outside any try block.
DraftGetJson ==
    /\ dpc = "get_json"
    /\ IF loads(dReq).ok
       THEN /\ draft_req_body' = loads(dReq).val
            /\ dpc' = "env"
            /\ dResp' = dResp
       ELSE /\ draft_req_body' = draft_req_body
            /\ dpc' = "done"
            /\ dResp' = Except("draft_get_json")
    /\ UNCHANGED <<queueA, queueB, intakeVars, workerVars, dReq, access_token,
                   graph_calls, drafts>>

\* os.environ[...] of tenant id, client id and client secret.
DraftEnv ==
    /\ dpc = "env"
    /\ \E configured \in BOOLEAN :
          IF configured
          THEN dpc' = "token" /\ dResp' = dResp
          ELSE dpc' = "done" /\ dResp' = Except("draft_env")
    /\ UNCHANGED <<queueA, queueB, intakeVars, workerVars, dReq, draft_req_body,
                   access_token, graph_calls, drafts>>

\* The client-credential exchange and the check of its result.
DraftToken ==
    /\ dpc = "token"
    /\ \E tok \in TokenResults :
          /\ access_token' = tok
          /\ IF TokenMissing(tok)
             THEN dpc' = "done" /\ dResp' = Returned
             ELSE dpc' = "payload" /\ dResp' = dResp
    /\ UNCHANGED <<queueA, queueB, intakeVars, workerVars, dReq, draft_req_body,
                   graph_calls, drafts>>

\* req_body["subject"], ["body"], ["recipient_email"], ["sender_email"].
DraftBuildPayload ==
    /\ dpc = "payload"
    /\ IF /\ draft_req_body.kind = "dict"
          /\ \A i \in 1..Len(draft_fields) : HasKey(draft_req_body, draft_fields[i])
       THEN dpc' = "submit" /\ dResp' = dResp
       ELSE dpc' = "done" /\ dResp' = Except("draft_payload")
    /\ UNCHANGED <<queueA, queueB, intakeVars, workerVars, dReq, draft_req_body,
                   access_token, graph_calls, drafts>>

GraphCall(token, mailbox, raised, status) ==
    [token |-> token, mailbox |-> mailbox, raised |-> raised, status |-> status]

\* requests.post(url, headers=headers, json=draft_payload) and the mapping
\* of its status code.
DraftSubmit ==
    /\ dpc = "submit"
    /\ dpc' = "done"
    /\ \E raised \in BOOLEAN : \E status \in ProviderStatuses :
          /\ raised => status = 500
          /\ graph_calls' = Append(graph_calls,
                GraphCall(access_token, DictGet(draft_req_body, "sender_email"),
                          raised, IF raised THEN 0 ELSE status))
          /\ dResp' = IF raised THEN Except("draft_submit") ELSE DraftResponse(status)
    /\ UNCHANGED <<queueA, queueB, intakeVars, workerVars, dReq, draft_req_body,
                   access_token, drafts>>

\* The function returns (or its exception leaves it) and its locals go.
DraftFinish ==
    /\ dpc = "done"
    /\ dpc' = "idle"
    /\ dReq' = <<>>
    /\ draft_req_body' = None
    /\ access_token' = Unset
    /\ graph_calls' = <<>>
    /\ UNCHANGED <<queueA, queueB, intakeVars, workerVars, dResp, drafts>>

DraftNext ==
    \/ DraftStart
    \/ DraftGetJson
    \/ DraftEnv
    \/ DraftToken
    \/ DraftBuildPayload
    \/ DraftSubmit
    \/ DraftFinish

\* -------------------------------------------------------- specifications

Init ==
    /\ queueA = <<>>
    /\ queueB = <<>>
    /\ inReq = <<>>
    /\ inResp = Pending
    /\ requests = 0
    /\ pc = "idle"
    /\ msg = <<>>
    /\ req_body = None
    /\ user_content = <<>>
    /\ prompt_messages = <<>>
    /\ reply_content = <<>>
    /\ calls = <<>>
    /\ outcome = Pending
    /\ deliveries = 0
    /\ dpc = "idle"
    /\ dReq = <<>>
    /\ draft_req_body = None
    /\ access_token = Unset
    /\ graph_calls = <<>>
    /\ dResp = Pending
    /\ drafts = 0

Next == Intake \/ WorkerNext \/ DraftNext

\* The three handlers side by side.
Spec == Init /\ [][Next]_vars

\* The intake alone.
SpecIntake == Init /\ [][Intake]_vars

\* The worker alone, on a queue A that earlier intake invocations filled.
RECURSIVE SeqsUpTo(_, _)
SeqsUpTo(S, n) ==
    IF n = 0 THEN {<<>>}
    ELSE SeqsUpTo(S, n - 1) \cup {Append(q, m) : q \in SeqsUpTo(S, n - 1), m \in S}

InitWorker ==
    /\ queueA \in SeqsUpTo(IntakeMessages, MaxQueued)
    /\ queueB = <<>>
    /\ inReq = <<>>
    /\ inResp = Pending
    /\ requests = 0
    /\ pc = "idle"
    /\ msg = <<>>
    /\ req_body = None
    /\ user_content = <<>>
    /\ prompt_messages = <<>>
    /\ reply_content = <<>>
    /\ calls = <<>>
    /\ outcome = Pending
    /\ deliveries = 0
    /\ dpc = "idle"
    /\ dReq = <<>>
    /\ draft_req_body = None
    /\ access_token = Unset
    /\ graph_calls = <<>>
    /\ dResp = Pending
    /\ drafts = 0

SpecWorker == InitWorker /\ [][WorkerNext]_vars

\* The draft-creation endpoint alone.
SpecDraft == Init /\ [][DraftNext]_vars

\* The two handlers that call external services, side by side.
HandlersNext == WorkerNext \/ DraftNext

SpecHandlers == InitWorker /\ [][HandlersNext]_vars

\* ================================================================ claims

Last(q) == q[Len(q)]
Made(svc) == \E i \in 1..Len(calls) : calls[i].svc = svc
Original == loads(msg).val

\* The text of a field of the original request where Python formats it: the
\* string itself, None for a null or absent field.
Shown(v) == IF v.kind = "str" THEN v.s ELSE <<"None">>

\* --- C1

\* A payload with subject, body and sender_email present and non-empty.
ValidRequest(body) ==
    /\ loads(body).ok
    /\ loads(body).val.kind = "dict"
    /\ \A f \in {"subject", "body", "sender_email"} :
          /\ HasKey(loads(body).val, f)
          /\ DictGet(loads(body).val, f).kind = "str"
          /\ DictGet(loads(body).val, f).s # <<>>

\* C1: every invocation of generate_email with a valid payload appends exactly
\* one message to queue A, whatever the queue already holds (no
\* de-duplication), the message decodes to the payload, and the response is 202.
C1_ValidRequestEnqueuedOnce ==
    [][(requests' = requests + 1 /\ ValidRequest(inReq')) =>
          /\ Len(queueA') = Len(queueA) + 1
          /\ SubSeq(queueA', 1, Len(queueA)) = queueA
          /\ loads(Last(queueA')).ok
          /\ PyEq(loads(Last(queueA')).val, loads(inReq').val)
          /\ inResp'.kind = "response"
          /\ inResp'.status = 202]_vars

\* C1 witness: the same valid payload sent twice is on queue A twice.
C1_Witness ==
    /\ requests = 2
    /\ ValidRequest(inReq)
    /\ Len(queueA) = 2
    /\ queueA[1] = queueA[2]
    /\ PyEq(loads(queueA[2]).val, NamedReply)
    /\ inResp.status = 202

\* --- C2

\* A body that does not parse, or a payload without one of the three fields.
IncompleteRequest(body) ==
    \/ ~loads(body).ok
    \/ loads(body).val.kind # "dict"
    \/ \E f \in {"subject", "body", "sender_email"} : ~HasKey(loads(body).val, f)

\* C2: every invocation of generate_email whose body does not parse or whose
\* payload lacks subject, body or sender_email answers 400 and leaves queue A
\* as it was.
C2_IncompleteRequestRejected ==
    [][(requests' = requests + 1 /\ IncompleteRequest(inReq')) =>
          /\ inResp'.kind = "response"
          /\ inResp'.status = 400
          /\ queueA' = queueA]_vars

\* --- C3

\* C3: once the worker has enqueued its reply, the newest message of queue B
\* decodes to a mapping of exactly subject, body, recipient_email and
\* sender_email, whose subject is "Re: " followed by the original subject
\* (shown as None when the original subject is null),
\* whose recipient_email is the original sender_email and whose sender_email
\* is the original recipient_email.
C3_ReplyFields ==
    (pc # "idle" /\ Made("enqueue")) =>
        LET reply == loads(Last(queueB))
        IN  /\ reply.ok
            /\ reply.val.kind = "dict"
            /\ Len(reply.val.items) = 4
            /\ \A f \in {"subject", "body", "recipient_email", "sender_email"} :
                  HasKey(reply.val, f)
            /\ DictGet(reply.val, "subject")
                  = Str(<<"Re: ">> \o Shown(DictGet(Original, "subject")))
            /\ DictGet(reply.val, "recipient_email") = DictGet(Original, "sender_email")
            /\ DictGet(reply.val, "sender_email") = DictGet(Original, "recipient_email")

\* C3 witness: a reply to a request that named both addresses is on queue B.
C3_Witness ==
    /\ pc = "done"
    /\ Made("enqueue")
    /\ DictGet(Original, "recipient_email") = Str(<<"b@y.com">>)
    /\ DictGet(loads(Last(queueB)).val, "recipient_email") = Str(<<"a@x.com">>)
    /\ DictGet(loads(Last(queueB)).val, "subject") = Str(<<"Re: ", "Hi">>)

\* --- C4

\* C4: when create_outlook_draft ends after the mailbox provider answered, its
\* response carries the provider's status code, with the text "Draft
\* created." exactly when that code is 201 and "Failed to create draft."
\* otherwise.
C4_ProviderStatusMapped ==
    (dpc = "done" /\ graph_calls # <<>> /\ ~Last(graph_calls).raised) =>
        /\ dResp.kind = "response"
        /\ dResp.status = Last(graph_calls).status
        /\ (Last(graph_calls).status = 201) <=> (dResp.text = <<"Draft created.">>)
        /\ (Last(graph_calls).status # 201) <=> (dResp.text = <<"Failed to create draft.">>)

\* C4 witness: the provider answered 200, which is not 201, and the endpoint
\* answered 200 "Failed to create draft.".
C4_Witness ==
    /\ dpc = "done"
    /\ graph_calls # <<>>
    /\ Last(graph_calls).status = 200
    /\ dResp = Response(200, "Failed to create draft.")

\* --- C5

\* C5: no invocation ends with an exception leaving the handler from the
\* generation-service call, from an audit post, or from the submission of the
\* draft payload to the mailbox provider.
C5_ExceptionsCaught ==
    /\ ~(outcome.kind = "raised"
            /\ outcome.at \in {"generate", "reply", "post_metadata", "post_training"})
    /\ ~(dResp.kind = "raised" /\ dResp.at = "draft_submit")

\* --- C6

\* C6: when the credential exchange gave no access token the invocation is
\* over, it returned no response object and called the mailbox provider not
\* at all; and every mailbox call of an invocation carries the token obtained
\* in that invocation, and there is at most one.
C6_NoTokenNoCall ==
    /\ (access_token.kind # "unset" /\ ~Truthy(access_token)) =>
          /\ dpc = "done"
          /\ dResp = Returned
          /\ graph_calls = <<>>
    /\ graph_calls # <<>> =>
          /\ Len(graph_calls) = 1
          /\ access_token.kind = "str"
          /\ access_token.s # <<>>
          /\ graph_calls[1].token = access_token

\* C6 witness: the exchange answered with an empty token and the handler
\* returned None.
C6_Witness ==
    /\ dpc = "done"
    /\ access_token = Str(<<>>)
    /\ dResp = Returned
    /\ graph_calls = <<>>

\* --- C7

HasSignature(t) == \E i \in 1..Len(t) : t[i] = "\n\nSign off as "

ExpectedSignature ==
    <<"\n\nSign off as ">> \o Shown(DictGet(Original, "recipient_name"))
        \o <<" with position as Magiccars Customer Care and email contact ">>
        \o Shown(DictGet(Original, "recipient_email")) \o <<".">>

TwoTurnsEmbedding ==
    /\ Len(prompt_messages) = 2
    /\ prompt_messages[1].role = <<"system">>
    /\ prompt_messages[2].role = <<"user">>
    /\ prompt_messages[2].content = user_content
    /\ \A f \in {"sender_email", "subject", "body"} :
          Contains(user_content, Shown(DictGet(Original, f)))

\* C7 as stated: the prompt has the two turns system and user, the user turn
\* embeds sender_email, subject and body, it has no signature clause when
\* recipient_name is absent, and it ends with the signature clause whenever
\* recipient_name is present.
C7_SignatureWhenPresent ==
    pc = "generate" =>
        /\ TwoTurnsEmbedding
        /\ ~HasKey(Original, "recipient_name") => ~HasSignature(user_content)
        /\ HasKey(Original, "recipient_name") => EndsWith(user_content, ExpectedSignature)

\* C7 amended: the prompt has the two turns system and user, the user turn
\* embeds sender_email, subject and body; it has no signature clause when
\* recipient_name is absent, null or empty, and it ends with the signature
\* clause (name, "Magiccars Customer Care", recipient_email or None) when
\* recipient_name is a non-empty string.
C7_SignatureWhenNonEmpty ==
    pc = "generate" =>
        LET name == DictGet(Original, "recipient_name")
            nonEmpty == HasKey(Original, "recipient_name") /\ name.kind = "str" /\ name.s # <<>>
        IN  /\ TwoTurnsEmbedding
            /\ ~nonEmpty => ~HasSignature(user_content)
            /\ nonEmpty => EndsWith(user_content, ExpectedSignature)

\* C7 witness: a request with recipient_name "Bob" and no recipient_email has
\* its prompt built, signed off with the email shown as None.
C7_Witness ==
    /\ pc = "generate"
    /\ DictGet(Original, "recipient_name") = Str(<<"Bob">>)
    /\ ~HasKey(Original, "recipient_email")
    /\ EndsWith(user_content, <<"Bob",
          " with position as Magiccars Customer Care and email contact ", "None", ".">>)

\* --- C8

\* C8: up to the creation of the generation-service client the worker calls
\* no external service and leaves queue B alone; and when it stops because
\* the message does not decode or the configuration is missing, it returns
\* normally and puts nothing back on queue A.
C8_SilentAbort ==
    [][(pc \in {"idle", "decode", "extract", "init_client"}) =>
          /\ queueB' = queueB
          /\ calls' = <<>>
          /\ (pc \in {"decode", "init_client"} /\ pc' = "done") =>
                (outcome' = Returned /\ queueA' = queueA)]_vars

\* C8 witness: a message that does not decode ended the invocation with a
\* plain return and no call.
C8_Witness ==
    /\ pc = "done"
    /\ ~loads(msg).ok
    /\ outcome = Returned
    /\ calls = <<>>
    /\ queueB = <<>>

\* --- C9

\* C9: from the enqueue on, no step of the invocation changes queue B, which
\* holds the reply, and none ends the invocation with an exception: it
\* returns normally.
C9_AuditFailureKeepsReply ==
    [][(pc \in {"audit_env", "post_metadata", "post_training"} \/ (pc = "done" /\ Made("enqueue"))) =>
          /\ queueB # <<>>
          /\ queueB' = queueB
          /\ outcome'.kind # "raised"
          /\ (pc = "done" => outcome' = Returned)]_vars

\* C9 witness: the metadata post raised after the enqueue; the reply is on
\* queue B and the invocation returned.
C9_Witness ==
    /\ pc = "done"
    /\ Len(calls) = 3
    /\ Last(calls) = Call("metadata", TRUE)
    /\ outcome = Returned
    /\ queueB # <<>>
    /\ loads(Last(queueB)).ok

\* --- C10

EffectOrder == <<"generate", "enqueue", "metadata", "training">>

\* C10: the external effects of one invocation are a prefix of generate,
\* enqueue, metadata, training, each at most once, and only the last of them
\* can have raised; queue B changes only by the enqueue that follows a
\* generation call that did not raise.
C10_EffectOrder ==
    /\ [](/\ Len(calls) <= Len(EffectOrder)
          /\ \A i \in 1..Len(calls) :
                /\ calls[i].svc = EffectOrder[i]
                /\ i < Len(calls) => ~calls[i].raised)
    /\ [][queueB' # queueB =>
            (/\ calls = <<Call("generate", FALSE)>>
             /\ calls' = <<Call("generate", FALSE), Call("enqueue", FALSE)>>
             /\ Len(queueB') = Len(queueB) + 1)]_vars

\* C10 witness: all four effects happened, in order.
C10_Witness ==
    /\ pc = "done"
    /\ Len(calls) = 4
    /\ calls[4] = Call("training", FALSE)
    /\ queueB # <<>>
====
